---- MODULE Spec2Model ----
(***************************************************************************)
(* RadMon_v1.ino: ESP32 Geiger counter.  The interrupt handler counts tube *)
(* pulses; loop() either flushes the log to the network, aggregates one    *)
(* reading into the log, or samples the sensors and checks the alert       *)
(* thresholds.                                                             *)
(*                                                                         *)
(* Representation of the float globals (exact, no rounding):               *)
(*   uSvH     in millionths of a uSv/h  (cpm * 0.008120 = cpm * 8120e-6)   *)
(*   caseTemp in sixteenths of a degree (raw / 16.0)                       *)
(*   cpuTemp  in ninths of a degree     ((r - 32) / 1.8 = (r - 32) * 5 / 9)*)
(* unsigned long is 32 bits wide on the ESP32: every unsigned long value   *)
(* (clock, previousMillis, lastAlertMillis, counts) is kept modulo 2^32.   *)
(***************************************************************************)
EXTENDS Integers, Sequences, FiniteSets, TLC

\* ---------------------------------------------------------------- constants
ReadingsTransmitThreshold == 180
LOG_PERIOD == 60000
MINUTE_PERIOD == 60000
DataStoreSize == 60000
AlertPeriod == 1800000
ConnectDeadline == 60000
ConnectPollDelay == 500
PushLogsDelay == 5000
IFTTTDelay == 5000
SensorDelay == 250
LoopDelay == 250
Half == 65536
cpmConversation == 8120
DoseLimit == 750000
CaseTempLimit == 768
Thingspeak_API_KEY_Len == 6
TimestampLen == 25

\* ------------------------------------------------------------------- bounds
\* What one run of each specification may contain: flush ticks, aggregation
\* windows, and events (a burst of pulses, a stalled tick, a failed clock
\* read, a failed sensor read).
MaxPushes == 3
MaxEvents == 1
AlertWindows == 8
AlertEvents == 1
PulseWindows == 2
PulseEvents == 2
RateWindows == 2
RateEvents == 2
WindowWindows == 4
FrameWindows == 2
FrameEvents == 2
FramePushes == 1

\* unsigned long arithmetic.  TLC's integers are narrower than 2^32, so an
\* unsigned long is kept as two 16-bit halves [h, l], its value h * 2^16 + l.
ULong(n) == [h |-> (n \div Half) % Half, l |-> n % Half]
Add32(a, b) ==
    [h |-> (a.h + b.h + (a.l + b.l) \div Half) % Half, l |-> (a.l + b.l) % Half]
Sub32(a, b) ==
    [h |-> (a.h - b.h - (IF a.l < b.l THEN 1 ELSE 0) + Half) % Half,
     l |-> (a.l - b.l + Half) % Half]
RECURSIVE Mul32(_, _)
\* a * m modulo 2^32, m an integer
Mul32(a, m) ==
    IF m = 0 THEN ULong(0)
    ELSE LET half == Mul32(a, m \div 2)
             dbl == Add32(half, half)
         IN  IF m % 2 = 1 THEN Add32(dbl, a) ELSE dbl
\* a / d as an integer, for 32768 <= d < 65536 (the quotient then fits)
Div32(a, d) == a.h * (Half \div d) + (a.h * (Half % d) + a.l) \div d
\* the value of a as an integer, saturated at 2^31 - 1
Value(a) == IF a.h >= Half \div 2 THEN 2147483647 ELSE a.h * Half + a.l
AddMs(a, ms) == Add32(a, ULong(ms))

Max(a, b) == IF a >= b THEN a ELSE b

\* ------------------------------------------------------- Arduino String(...)
RECURSIVE Digits(_)
\* number of decimal digits of n >= 0
Digits(n) == IF n < 10 THEN 1 ELSE 1 + Digits(n \div 10)

\* String(unsigned long).length()
StrLenULong(n) == Digits(n)

\* String(float).length(): two decimal places, rounded; num/den is the value
StrLenFloat(num, den) ==
    LET mag == IF num < 0 THEN -num ELSE num
        hundredths == (mag \div den) * 100
                      + (2 * (mag % den) * 100 + den) \div (2 * den)
    IN  (IF num < 0 THEN 1 ELSE 0) + Digits(hundredths \div 100) + 3

\* ------------------------------------------------------------ the log buffer
\* dataStore[0 .. usedData-1] is described by segs, a sequence of segments
\* [kind, len, n]: "head" the batch header, "recs" n consecutive records,
\* "tail" the closing "]}", "skip" a byte the cursor moved over without writing.
\* Bytes at indices >= hiWater have never been written and still hold the NUL
\* of the zero-initialised array, as do the indices in holes; every other byte
\* is a non-NUL character.  oob: a write landed outside dataStore.
EmptyStore ==
    [usedData |-> 0, segs |-> <<>>, hiWater |-> 0, holes |-> {}, oob |-> FALSE]

AddSeg(segs, kind, len, n) ==
    IF len = 0 /\ n = 0 THEN segs
    ELSE IF Len(segs) > 0 /\ segs[Len(segs)].kind = kind
         THEN [segs EXCEPT ![Len(segs)] =
                  [kind |-> kind, len |-> @.len + len, n |-> @.n + n]]
         ELSE Append(segs, [kind |-> kind, len |-> len, n |-> n])

\* strncpy(&dataStore[at], s, len): the bytes at .. at+len-1 are written
Strncpy(b, at, len) ==
    IF len = 0 THEN b
    ELSE [b EXCEPT
            !.hiWater = Max(@, at + len),
            !.holes = (@ \cup (b.hiWater .. (at - 1))) \ (at .. (at + len - 1)),
            !.oob = @ \/ at < 0 \/ at + len > DataStoreSize]

\* strncpy(&dataStore[usedData], s, len); usedData += len;
Put(b, kind, len, n) ==
    [Strncpy(b, b.usedData, len) EXCEPT
        !.usedData = @ + len,
        !.segs = AddSeg(@, kind, len, n)]

\* "{\"write_api_key\":\"" + Thingspeak_API_KEY + "\",\"updates\":["
StartHeadLen == 18 + Thingspeak_API_KEY_Len + 13
\* "\",\"" + fname + "\": \""  with fname = "fieldN"
Head2Len == 3 + 6 + 4
\* "{\"created_at\":\""
Head1Len == 15

LogFieldToData(b, valueLen, lastValue) ==
    LET b1 == Put(b, "recs", Head2Len, 0)
        b2 == Put(b1, "recs", valueLen, 0)
        b3 == Strncpy(b2, b2.usedData, 1)
    IN  IF lastValue THEN Put(b3, "recs", 1, 0) ELSE b3

\* LogData once the time has been obtained; entries is logEntires on entry
LogRecord(b, entries, cpmV, uSvHV, caseTempV, cpuTempV) ==
    LET b0 == IF entries = 0 THEN Put(b, "head", StartHeadLen, 0) ELSE b
        b1 == Put(b0, "recs", Head1Len, 0)
        b2 == Put(b1, "recs", TimestampLen, 0)
        f1 == LogFieldToData(b2, StrLenULong(cpmV), FALSE)
        f2 == LogFieldToData(f1, StrLenFloat(uSvHV, 1000000), FALSE)
        f3 == LogFieldToData(f2, StrLenFloat(caseTempV, 16), FALSE)
        f4 == LogFieldToData(f3, StrLenFloat(cpuTempV, 9), TRUE)
    IN  Put(f4, "recs", 2, 1)

\* LogData without the early return on a failed getLocalTime
LogData_NoTimeTest(b, entries, timeOk, cpmV, uSvHV, caseTempV, cpuTempV) ==
    [store |-> LogRecord(b, entries, cpmV, uSvHV, caseTempV, cpuTempV),
     logEntires |-> entries + 1]

\* LogData: [store, logEntires]; timeOk is the result of getLocalTime
LogData(b, entries, timeOk, cpmV, uSvHV, caseTempV, cpuTempV) ==
    IF ~timeOk THEN [store |-> b, logEntires |-> entries]
    ELSE [store |-> LogRecord(b, entries, cpmV, uSvHV, caseTempV, cpuTempV),
          logEntires |-> entries + 1]

\* PushLogs, lines 297-299: "]}" written over dataStore[usedData-1 .. usedData],
\* then usedData += 2, which leaves dataStore[usedData+1] unwritten
TerminateHeader(b) ==
    LET w == Strncpy(b, b.usedData - 1, 2)
        n == Len(b.segs)
        cut == IF n > 0 /\ b.segs[n].len > 0
               THEN [b.segs EXCEPT ![n].len = @ - 1] ELSE b.segs
    IN  [w EXCEPT !.usedData = @ + 2,
                  !.segs = AddSeg(AddSeg(cut, "tail", 2, 0), "skip", 1, 0)]

\* usedData = 0: the cursor is reset, the bytes stay where they are
ClearStore(b) == [b EXCEPT !.usedData = 0, !.segs = <<>>]

\* client.POST(dataStore) sends the bytes up to the first NUL
PayloadLen(b) ==
    LET nul == b.holes \cup {b.hiWater}
    IN  CHOOSE i \in nul : \A j \in nul : i <= j

\* --------------------------------------------------------------------- state
VARIABLES
    pc,               \* "loop": between two calls of loop(); "RadCalc": inside
                      \* RadCalc, counts read and not yet reset; "corrupt": a
                      \* write has landed outside dataStore
    clock,            \* millis()
    counts, cpm, uSvH, caseTemp, cpuTemp,
    previousMillis, lastAlertMillis,
    usedData, logEntires,
    dataStore,        \* [segs, hiWater, holes], see above
    tick,             \* what the tick in progress, or the last one, has done
    pulses,           \* interrupts taken so far
    drained,          \* sum of the values of counts that RadCalc has read
    window,           \* pulses: pending since RadCalc last returned, N the
                      \* value of pending when RadCalc last began, during
                      \* taken while it ran
    sinceFire,        \* ms since the last ThresholdCheck that notified began, -1: none
    fireGap,          \* ms between the last two ThresholdChecks that notified, -1: none
    used              \* how much of the bounds the run has used

vars == <<pc, clock, counts, cpm, uSvH, caseTemp, cpuTemp, previousMillis,
          lastAlertMillis, usedData, logEntires, dataStore, tick, pulses,
          drained, window, sinceFire, fireGap, used>>

Store == [usedData |-> usedData, segs |-> dataStore.segs,
          hiWater |-> dataStore.hiWater, holes |-> dataStore.holes, oob |-> FALSE]

Bytes(b) == [segs |-> b.segs, hiWater |-> b.hiWater, holes |-> b.holes]

NoTick == [branch |-> "none", entries |-> 0, elapsed |-> 0, appended |-> FALSE,
           handed |-> FALSE, checked |-> FALSE, sent |-> <<>>, armed |-> FALSE,
           checkedAt |-> ULong(0), connected |-> FALSE, httpCode |-> 0,
           payloadLen |-> 0, timeOk |-> TRUE, read |-> 0]

\* ------------------------------------------------------------------ ISR_impulse
\* counts++, n times in a row
ISR_impulse(p) ==
    /\ pc \in {"loop", "RadCalc"}
    /\ used.events < p.maxEvents
    /\ \E n \in p.bursts :
          /\ counts' = AddMs(counts, n)
          /\ pulses' = pulses + n
          /\ window' = IF pc = "RadCalc"
                        THEN [window EXCEPT !.during = @ + n]
                        ELSE [window EXCEPT !.pending = @ + n]
    /\ used' = [used EXCEPT !.events = @ + 1]
    /\ UNCHANGED <<pc, clock, cpm, uSvH, caseTemp, cpuTemp, previousMillis,
                   lastAlertMillis, usedData, logEntires, dataStore, tick,
                   drained, sinceFire, fireGap>>

\* ---------------------------------------------------------------------- RadCalc
\* cpm = counts * MINUTE_PERIOD / LOG_PERIOD, in unsigned long
RadCalcCpm(c) == Div32(Mul32(c, MINUTE_PERIOD), LOG_PERIOD)
\* uSvH = cpm * cpmConversation
RadCalcDose(c) == c * cpmConversation

\* --------------------------------------------------------------- ThresholdCheck
\* Armed with the cooldown test off by one (>= for >)
Armed_Early(currentMillis, last) ==
    Value(Sub32(currentMillis, last)) >= AlertPeriod \/ last = ULong(0)

\* Armed without the cooldown test
Armed_NoCooldown(currentMillis, last) == TRUE

\* the condition of line 223
Armed(currentMillis, last) ==
    Value(Sub32(currentMillis, last)) > AlertPeriod \/ last = ULong(0)

\* IFTTT that sets lastAlertMillis only when the trigger succeeded
IFTTT_StampOnSuccess(a, event, ok) ==
    LET now == AddMs(a.clock, 2 * IFTTTDelay)
    IN  [clock |-> now, lastAlertMillis |-> IF ok THEN now ELSE a.lastAlertMillis,
         sent |-> Append(a.sent, [event |-> event, ok |-> ok]),
         took |-> a.took + 2 * IFTTTDelay]

\* IFTTT: two delay(5000) around the trigger, then lastAlertMillis = millis()
IFTTT(a, event, ok) ==
    LET now == AddMs(a.clock, 2 * IFTTTDelay)
    IN  [clock |-> now, lastAlertMillis |-> now,
         sent |-> Append(a.sent, [event |-> event, ok |-> ok]),
         took |-> a.took + 2 * IFTTTDelay]

\* ThresholdCheck called when millis() is now; oks are the results of the triggers
ThresholdCheck(now, last, dose, temp, oks) ==
    LET a0 == [clock |-> now, lastAlertMillis |-> last, sent |-> <<>>, took |-> 0]
        a1 == IF dose >= DoseLimit
              THEN IFTTT(a0, "AbnormalRadiationLevels", oks[1]) ELSE a0
        a2 == IF temp >= CaseTempLimit
              THEN IFTTT(a1, "CaseTempHigh", oks[2]) ELSE a1
    IN  IF Armed(now, last) THEN a2 ELSE a0

\* ------------------------------------------------------------------------- loop
\* BranchOf with the flush test off by one (> for >=)
BranchOf_FlushLate(entries, currentMillis, prev) ==
    IF entries > ReadingsTransmitThreshold THEN "flush"
    ELSE IF Value(Sub32(currentMillis, prev)) > LOG_PERIOD THEN "aggregate"
    ELSE "sample"

\* BranchOf with the two tests in the other order
BranchOf_WindowFirst(entries, currentMillis, prev) ==
    IF Value(Sub32(currentMillis, prev)) > LOG_PERIOD THEN "aggregate"
    ELSE IF entries >= ReadingsTransmitThreshold THEN "flush"
    ELSE "sample"

\* BranchOf without the sample branch
BranchOf_NoSample(entries, currentMillis, prev) ==
    IF entries >= ReadingsTransmitThreshold THEN "flush" ELSE "aggregate"

\* the branch loop() takes, lines 154-171
BranchOf(entries, currentMillis, prev) ==
    IF entries >= ReadingsTransmitThreshold THEN "flush"
    ELSE IF Value(Sub32(currentMillis, prev)) > LOG_PERIOD THEN "aggregate"
    ELSE "sample"

Branch == BranchOf(logEntires, clock, previousMillis)

Begin(branch) ==
    [NoTick EXCEPT !.branch = branch, !.entries = logEntires,
                   !.elapsed = Value(Sub32(clock, previousMillis))]

\* ms of real time go by
Pass(ms) ==
    /\ clock' = AddMs(clock, ms)
    /\ sinceFire' = IF sinceFire < 0 THEN sinceFire ELSE sinceFire + ms

\* CaseTempCalc: the delay it takes and the caseTemp it leaves.  sensor.kind is
\* "absent" (ds.search fails), "invalid" (bad CRC, unknown family) or "ok"
\* with sensor.raw the converted reading
CaseTempDelay(sensor) == IF sensor.kind = "invalid" THEN 0 ELSE SensorDelay
CaseTempCalc(sensor, old) == IF sensor.kind = "ok" THEN sensor.raw ELSE old

\* CPUTempCalc: (temprature_sens_read() - 32) / 1.8, in ninths of a degree
CPUTempCalc(r) == (r - 32) * 5

\* The else branch of loop(): sensors, ThresholdCheck, delay(250).  stall is
\* the time the blocking calls of the tick take beyond the explicit delays.
SampleTick(p) ==
    /\ pc = "loop"
    /\ Branch = "sample"
    /\ \E sensor \in p.sensors, r \in p.cpuRaw, stall \in p.stalls \cup p.oddStalls,
          oks \in p.notify \X p.notify :
          LET odd == stall \notin p.stalls \/ sensor.kind # "ok"
              before == CaseTempDelay(sensor) + SensorDelay + stall
              temp == CaseTempCalc(sensor, caseTemp)
              tc == ThresholdCheck(AddMs(clock, before), lastAlertMillis,
                                   uSvH, temp, oks)
              fired == tc.sent # <<>>
          IN  /\ odd => used.events < p.maxEvents
              /\ used' = IF odd THEN [used EXCEPT !.events = @ + 1] ELSE used
              /\ caseTemp' = temp
              /\ cpuTemp' = CPUTempCalc(r)
              /\ lastAlertMillis' = tc.lastAlertMillis
              /\ clock' = AddMs(tc.clock, LoopDelay)
              /\ sinceFire' = IF fired THEN tc.took + LoopDelay
                              ELSE IF sinceFire < 0 THEN sinceFire
                              ELSE sinceFire + before + LoopDelay
              /\ fireGap' = IF ~fired THEN fireGap
                            ELSE IF sinceFire < 0 THEN -1
                            ELSE sinceFire + before
              /\ tick' = [Begin("sample") EXCEPT
                            !.checked = TRUE,
                            !.checkedAt = AddMs(clock, before),
                            !.armed = Armed(AddMs(clock, before), lastAlertMillis),
                            !.sent = tc.sent]
    /\ UNCHANGED <<pc, counts, cpm, uSvH, previousMillis, usedData, logEntires,
                   dataStore, pulses, drained, window>>

\* The else-if branch of loop() up to RadCalc's read of counts (line 208-209)
AggregateTick(p) ==
    /\ pc = "loop"
    /\ Branch = "aggregate"
    /\ used.windows < p.maxWindows
    /\ previousMillis' = clock
    /\ cpm' = RadCalcCpm(counts)
    /\ uSvH' = RadCalcDose(RadCalcCpm(counts))
    /\ drained' = drained + Value(counts)
    /\ window' = [pending |-> 0, N |-> window.pending, during |-> 0]
    /\ pc' = "RadCalc"
    /\ tick' = [Begin("aggregate") EXCEPT !.read = Value(counts)]
    /\ used' = [used EXCEPT !.windows = @ + 1]
    /\ UNCHANGED <<clock, counts, caseTemp, cpuTemp, lastAlertMillis, usedData,
                   logEntires, dataStore, pulses, sinceFire, fireGap>>

\* RadCalc's counts = 0 (line 211), LogData, and the end of loop()
AggregateTickEnd(p) ==
    /\ pc = "RadCalc"
    /\ counts' = ULong(0)
    /\ \E timeOk \in p.timeOk, stall \in {0} \cup p.oddStalls :
          LET r == LogData(Store, logEntires, timeOk, cpm, uSvH, caseTemp, cpuTemp)
              odd == ~timeOk \/ stall # 0
          IN  /\ odd => used.events < p.maxEvents
              /\ used' = IF odd THEN [used EXCEPT !.events = @ + 1] ELSE used
              /\ usedData' = r.store.usedData
              /\ dataStore' = Bytes(r.store)
              /\ logEntires' = r.logEntires
              /\ pc' = IF r.store.oob THEN "corrupt" ELSE "loop"
              /\ tick' = [tick EXCEPT !.appended = timeOk, !.timeOk = timeOk]
              /\ Pass(stall)
    /\ UNCHANGED <<cpm, uSvH, caseTemp, cpuTemp, previousMillis, lastAlertMillis,
                   pulses, drained, window, fireGap>>

\* the while loop of PushLogs, lines 307-319.  The link is up upAfter ms after
\* WiFi.begin.  At(i) is millis() after i delay(500); the loop condition is
\* read at At(0), and after each delay first the deadline test, then the loop
\* condition.
WaitForWiFi(startMills, upAfter) ==
    LET At(i) == AddMs(startMills, i * ConnectPollDelay)
        Up(i) == Value(Sub32(At(i), startMills)) >= upAfter
        Late(i) == Value(Sub32(At(i), startMills)) > ConnectDeadline
        last == ConnectDeadline \div ConnectPollDelay + 1
        stop == CHOOSE i \in 0 .. last :
                   /\ Up(i) \/ Late(i)
                   /\ \A j \in 0 .. (i - 1) : ~(Up(j) \/ Late(j))
    IN  [connected |-> ~Late(stop), now |-> At(stop)]

\* PushLogs: [store, now, connected]
PushLogs(b, now, upAfter) ==
    LET b1 == TerminateHeader(b)
        w == WaitForWiFi(now, upAfter)
    IN  IF b1.oob THEN [store |-> b1, now |-> now, connected |-> FALSE]
        ELSE IF ~w.connected THEN [store |-> b1, now |-> w.now, connected |-> FALSE]
        ELSE [store |-> ClearStore(b1), now |-> AddMs(w.now, PushLogsDelay),
              connected |-> TRUE]

\* The if branch of loop(): logEntires = 0; PushLogs()
FlushTick(p) ==
    /\ pc = "loop"
    /\ Branch = "flush"
    /\ used.pushes < p.maxPushes
    /\ \E upAfter \in p.wifiUp, code \in p.http :
          LET r == PushLogs(Store, clock, upAfter)
          IN  /\ r.connected \/ code = 0
              /\ ~r.connected \/ code # 0
              /\ logEntires' = 0
              /\ usedData' = r.store.usedData
              /\ dataStore' = Bytes(r.store)
              /\ pc' = IF r.store.oob THEN "corrupt" ELSE "loop"
              /\ Pass(Value(Sub32(r.now, clock)))
              /\ tick' = [Begin("flush") EXCEPT
                            !.handed = r.connected,
                            !.connected = r.connected,
                            !.httpCode = code,
                            !.payloadLen = IF r.connected
                                           THEN PayloadLen(TerminateHeader(Store))
                                           ELSE 0]
    /\ used' = [used EXCEPT !.pushes = @ + 1]
    /\ UNCHANGED <<counts, cpm, uSvH, caseTemp, cpuTemp, previousMillis,
                   lastAlertMillis, pulses, drained, window, fireGap>>

\* ------------------------------------------------------------- specifications
\* setup(): lastAlertMillis = 0, the other globals as initialised; loop() is
\* first entered start.clock ms after power-up
InitAt(start) ==
    /\ pc = "loop"
    /\ clock = start.clock
    /\ previousMillis = start.previousMillis
    /\ counts = ULong(0) /\ cpm = 0 /\ uSvH = 0
    /\ caseTemp = start.caseTemp /\ cpuTemp = start.cpuTemp
    /\ lastAlertMillis = ULong(0)
    /\ usedData = 0 /\ logEntires = 0
    /\ dataStore = [Bytes(EmptyStore) EXCEPT !.hiWater = start.hiWater]
    /\ tick = NoTick
    /\ pulses = 0 /\ drained = 0
    /\ window = [pending |-> 0, N |-> 0, during |-> 0]
    /\ sinceFire = -1 /\ fireGap = -1
    /\ used = [pushes |-> 0, windows |-> 0, events |-> 0]

\* delay(5000) of setup()
SetupDelay == 5000
Boot == [clock |-> ULong(SetupDelay), previousMillis |-> ULong(0),
         caseTemp |-> 0, cpuTemp |-> 0, hiWater |-> 0]

Room == [kind |-> "ok", raw |-> 352]
Hot == [kind |-> "ok", raw |-> 768]

\* The whole loop over several batches: every transport outcome, readings
\* below the limits, a tick that may stall.
LoopProfile ==
    [sensors |-> {Room},
     cpuRaw |-> {128},
     stalls |-> {59500}, oddStalls |-> {60001},
     notify |-> {TRUE},
     timeOk |-> {TRUE},
     wifiUp |-> {2000, 120000}, http |-> {0, 200, 500},
     bursts |-> {},
     maxEvents |-> MaxEvents,
     maxPushes |-> MaxPushes,
     maxWindows |-> (MaxPushes + 1) * ReadingsTransmitThreshold]

Init == InitAt(Boot)

Next ==
    \/ FlushTick(LoopProfile)
    \/ AggregateTick(LoopProfile)
    \/ AggregateTickEnd(LoopProfile)
    \/ SampleTick(LoopProfile)

Spec == Init /\ [][Next]_vars

\* The pulse counter over a few windows: bursts of pulses that arrive at any
\* point of the loop, RadCalc included, a clock that may be unavailable, a
\* sensor that may fail, windows of different lengths.
PulseProfile ==
    [sensors |-> {Room, [kind |-> "absent", raw |-> 0]},
     cpuRaw |-> {128},
     stalls |-> {59500}, oddStalls |-> {60001},
     notify |-> {TRUE},
     timeOk |-> {TRUE, FALSE},
     wifiUp |-> {}, http |-> {},
     bursts |-> {1, 600, 71583},
     maxEvents |-> PulseEvents,
     maxPushes |-> 0,
     maxWindows |-> PulseWindows]

InitPulse == InitAt(Boot)

NextPulse ==
    \/ ISR_impulse(PulseProfile)
    \/ AggregateTick(PulseProfile)
    \/ AggregateTickEnd(PulseProfile)
    \/ SampleTick(PulseProfile)

SpecPulse == InitPulse /\ [][NextPulse]_vars

\* The alert limiter over the windows of one cooldown and more: readings on
\* both sides of both limits, notifications that succeed or fail.  A sample
\* tick without a notification lasts AlertTick ms, a whole fraction of the
\* cooldown.
AlertTick == 5 * LOG_PERIOD
AlertStall == AlertTick - 2 * SensorDelay - LoopDelay
AlertProfile ==
    [sensors |-> {Room, Hot},
     cpuRaw |-> {128},
     stalls |-> {AlertStall}, oddStalls |-> {},
     notify |-> {TRUE, FALSE},
     timeOk |-> {TRUE},
     wifiUp |-> {}, http |-> {},
     bursts |-> {600},
     maxEvents |-> AlertEvents,
     maxPushes |-> 0,
     maxWindows |-> AlertWindows]

\* The loop after 2^32 - WrapLead ms of uptime without an alert, right after a
\* flush tick that succeeded: lastAlertMillis is still 0, the log is empty,
\* dataStore holds the bytes of the batch just sent.  A first sample tick of
\* the usual length that notifies once stores lastAlertMillis as millis()
\* wraps.
WrapLead == 2 * SensorDelay + AlertStall + 2 * IFTTTDelay
SentBatchLen ==
    StartHeadLen + 1
    + ReadingsTransmitThreshold
        * LogRecord(EmptyStore, 1, 0, 0, Room.raw, CPUTempCalc(128)).usedData
LongUp ==
    [clock |-> Sub32(ULong(0), ULong(WrapLead)),
     previousMillis |-> Sub32(ULong(0), ULong(WrapLead + 2000 + PushLogsDelay)),
     caseTemp |-> Room.raw, cpuTemp |-> CPUTempCalc(128),
     hiWater |-> SentBatchLen]

InitAlert == InitAt(Boot) \/ InitAt(LongUp)

NextAlert ==
    \/ ISR_impulse(AlertProfile)
    \/ AggregateTick(AlertProfile)
    \/ AggregateTickEnd(AlertProfile)
    \/ SampleTick(AlertProfile)

SpecAlert == InitAlert /\ [][NextAlert]_vars

\* The rate conversion over counts on both sides of the largest count whose
\* product with MINUTE_PERIOD fits in an unsigned long (71582): bursts that
\* add up to 35791, 35792, 71582, 71583, 71584 pulses in a window.
RateProfile ==
    [sensors |-> {Room},
     cpuRaw |-> {128},
     stalls |-> {59500}, oddStalls |-> {},
     notify |-> {TRUE},
     timeOk |-> {TRUE},
     wifiUp |-> {}, http |-> {},
     bursts |-> {35791, 35792},
     maxEvents |-> RateEvents,
     maxPushes |-> 0,
     maxWindows |-> RateWindows]

InitRate == InitAt(Boot)

NextRate ==
    \/ ISR_impulse(RateProfile)
    \/ AggregateTick(RateProfile)
    \/ AggregateTickEnd(RateProfile)
    \/ SampleTick(RateProfile)

SpecRate == InitRate /\ [][NextRate]_vars

\* The window test over ticks of two lengths: a sample tick lasts LOG_PERIOD
\* ms exactly or SensorDelay ms longer, so a tick can begin exactly
\* LOG_PERIOD ms after previousMillis as well as earlier and later.
WindowProfile ==
    [sensors |-> {Room},
     cpuRaw |-> {128},
     stalls |-> {LOG_PERIOD - 2 * SensorDelay - LoopDelay,
                 LOG_PERIOD - SensorDelay - LoopDelay},
     oddStalls |-> {},
     notify |-> {TRUE},
     timeOk |-> {TRUE},
     wifiUp |-> {}, http |-> {},
     bursts |-> {},
     maxEvents |-> 0,
     maxPushes |-> 0,
     maxWindows |-> WindowWindows]

InitWindow == InitAt(Boot)

NextWindow ==
    \/ AggregateTick(WindowProfile)
    \/ AggregateTickEnd(WindowProfile)
    \/ SampleTick(WindowProfile)

SpecWindow == InitWindow /\ [][NextWindow]_vars

\* The loop around a flush, with pulses: the state FrameEntries windows after
\* boot, every tick of the usual length and every reading ordinary (no pulse,
\* case at 22.00, cpu at 53.33), so that the next append is the one that
\* fills the batch.  Bursts of pulses arrive before and after it.
FrameEntries == ReadingsTransmitThreshold - 1
FrameRecordLen == LogRecord(EmptyStore, 1, 0, 0, Room.raw, CPUTempCalc(128)).usedData
FrameClock == SetupDelay + FrameEntries * (LOG_PERIOD + SensorDelay)
FrameProfile ==
    [sensors |-> {Room},
     cpuRaw |-> {128},
     stalls |-> {59500}, oddStalls |-> {},
     notify |-> {TRUE},
     timeOk |-> {TRUE},
     wifiUp |-> {2000, 120000}, http |-> {0, 200, 500},
     bursts |-> {600},
     maxEvents |-> FrameEvents,
     maxPushes |-> FramePushes,
     maxWindows |-> FrameWindows]

InitFrame ==
    /\ pc = "loop"
    /\ clock = ULong(FrameClock)
    /\ previousMillis = ULong(FrameClock)
    /\ counts = ULong(0) /\ cpm = 0 /\ uSvH = 0
    /\ caseTemp = Room.raw /\ cpuTemp = CPUTempCalc(128)
    /\ lastAlertMillis = ULong(0)
    /\ usedData = StartHeadLen + FrameEntries * FrameRecordLen
    /\ logEntires = FrameEntries
    /\ dataStore =
          [segs |-> <<[kind |-> "head", len |-> StartHeadLen, n |-> 0],
                      [kind |-> "recs", len |-> FrameEntries * FrameRecordLen,
                       n |-> FrameEntries]>>,
           hiWater |-> StartHeadLen + FrameEntries * FrameRecordLen,
           holes |-> {}]
    /\ tick = NoTick
    /\ pulses = 0 /\ drained = 0
    /\ window = [pending |-> 0, N |-> 0, during |-> 0]
    /\ sinceFire = -1 /\ fireGap = -1
    /\ used = [pushes |-> 0, windows |-> 0, events |-> 0]

NextFrame ==
    \/ ISR_impulse(FrameProfile)
    \/ FlushTick(FrameProfile)
    \/ AggregateTick(FrameProfile)
    \/ AggregateTickEnd(FrameProfile)
    \/ SampleTick(FrameProfile)

SpecFrame == InitFrame /\ [][NextFrame]_vars

\* ------------------------------------------------------------------- claims
\* a step that is one call of loop() from its start
TickStep == pc = "loop" /\ pulses' = pulses

\* C1: usedData never exceeds the 60000 bytes of dataStore and no write lands
\* at an index >= 60000, whatever the ticks and the transport outcomes.
C1_WithinCapacity == usedData <= DataStoreSize /\ pc # "corrupt"

\* C2: however ISR_impulse interleaves with the loop, RadCalc's read and reset
\* included, no pulse is lost or counted twice: the counts RadCalc has
\* drained plus the pulses still in counts are the interrupts taken.  (While
\* RadCalc is between its read and its reset, the value it read is in both.)
C2_NoPulseLost ==
    drained + Value(counts) - (IF pc = "RadCalc" THEN tick.read ELSE 0) = pulses

\* C3: when a flush tick has returned the log buffer is empty (usedData = 0),
\* whether the POST succeeded, failed, or the link never came up.
C3_EmptyAfterFlush == (pc = "loop" /\ tick.branch = "flush") => usedData = 0

\* C4: the tick whose append brings logEntires to ReadingsTransmitThreshold
\* does not flush; the next tick takes the flush branch and leaves
\* logEntires = 0 whatever the transport does.
C4_FlushOnNextTick ==
    [][/\ (pc = "RadCalc" /\ logEntires' = ReadingsTransmitThreshold)
            => (tick'.branch = "aggregate" /\ ~tick'.handed
                /\ usedData' > 0 /\ tick'.entries = ReadingsTransmitThreshold - 1)
       /\ (TickStep /\ logEntires = ReadingsTransmitThreshold)
            => (tick'.branch = "flush" /\ logEntires' = 0)]_vars

\* C4 witness: a flush tick that followed the 180th append has ended with the
\* link never up, and logEntires is 0
C4_Witness ==
    /\ pc = "loop" /\ tick.branch = "flush"
    /\ tick.entries = ReadingsTransmitThreshold
    /\ ~tick.connected /\ logEntires = 0

\* a step that is a sample tick, and what its ThresholdCheck saw
SampleStep == TickStep /\ tick'.branch = "sample"
SinceAlert == Value(Sub32(tick'.checkedAt, lastAlertMillis))
Exceeded == uSvH >= DoseLimit \/ caseTemp' >= CaseTempLimit
Events(sent) == [i \in DOMAIN sent |-> sent[i].event]
Cooldown == ~Armed(clock, lastAlertMillis)

\* C5: two ThresholdChecks that each notified are never within AlertPeriod
\* (1800000 ms) of each other, whatever the readings and the clock.
C5_NoRefireInCooldown == fireGap = -1 \/ fireGap > AlertPeriod

C9_ArmedCheckNotifies ==
    [][(SampleStep /\ tick'.armed) =>
         /\ Events(tick'.sent) =
               (IF uSvH >= DoseLimit THEN <<"AbnormalRadiationLevels">> ELSE <<>>)
               \o (IF caseTemp' >= CaseTempLimit THEN <<"CaseTempHigh">> ELSE <<>>)
         /\ Cooldown' <=> tick'.sent # <<>>]_vars

\* C10: with N pulses between two RadCalc calls and none during the second,
\* that call leaves cpm = N and the dose rate N * cpmConversation, and
\* counts = 0 (so that counts is what has arrived since); N = 0 gives cpm = 0.
C10_CpmIsPulseCount ==
    (tick.branch = "aggregate" /\ window.during = 0)
        => /\ cpm = window.N
           /\ uSvH = window.N * cpmConversation
           /\ pc = "loop" => Value(counts) = window.pending

\* the size of the record LogData is about to encode
RecordSize ==
    LogRecord(Store, logEntires, cpm, uSvH, caseTemp, cpuTemp).usedData - usedData

\* C7: when the encoded record is larger than the room left in dataStore,
\* LogData leaves usedData, logEntires and the stored bytes unchanged.
C7_OverflowRejected ==
    [][(pc = "RadCalc" /\ RecordSize > DataStoreSize - usedData)
          => UNCHANGED <<usedData, logEntires, dataStore>>]_vars

\* C8: every tick takes exactly one branch, flush before aggregate before
\* sample: with logEntires >= ReadingsTransmitThreshold it only flushes, even
\* when the window has elapsed too, and no tick both appends and hands the
\* buffer to the transport.
C8_OneBranchPerTick ==
    [][/\ TickStep =>
            /\ tick'.branch =
                  IF logEntires >= ReadingsTransmitThreshold THEN "flush"
                  ELSE IF Value(Sub32(clock, previousMillis)) > LOG_PERIOD
                       THEN "aggregate" ELSE "sample"
            /\ tick'.branch = "flush" =>
                  /\ logEntires' = 0 /\ ~tick'.appended /\ ~tick'.checked
                  /\ UNCHANGED <<previousMillis, counts, cpm, uSvH, caseTemp, cpuTemp>>
            /\ tick'.branch = "aggregate" =>
                  /\ previousMillis' = clock /\ ~tick'.handed /\ ~tick'.checked
                  /\ UNCHANGED <<usedData, logEntires, caseTemp, cpuTemp>>
            /\ tick'.branch = "sample" =>
                  /\ tick'.checked /\ ~tick'.handed /\ ~tick'.appended
                  /\ UNCHANGED <<usedData, logEntires, dataStore, previousMillis,
                                 counts, cpm>>
       /\ pc = "RadCalc" =>
            /\ tick'.branch = "aggregate" /\ ~tick'.handed /\ ~tick'.checked
            /\ UNCHANGED <<previousMillis, caseTemp, cpuTemp>>
       /\ ~(tick'.appended /\ tick'.handed)]_vars

\* C8 witness: a tick began with logEntires at the threshold and the window
\* elapsed as well, took the flush branch and handed the buffer over
C8_Witness ==
    /\ pc = "loop" /\ tick.branch = "flush" /\ tick.handed
    /\ tick.entries >= ReadingsTransmitThreshold
    /\ tick.elapsed > LOG_PERIOD

\* C11: the conversion is linear in the count: for the count c that RadCalc
\* read, with 2c representable in an unsigned long, the cpm RadCalc computes
\* for 2c is twice the cpm it computed for c.
C11_CpmLinear ==
    (tick.branch = "aggregate" /\ tick.read < Value([h |-> Half - 1, l |-> 0]))
        => RadCalcCpm(Add32(ULong(tick.read), ULong(tick.read))) = 2 * cpm

\* the run has used its flush ticks or its windows: the loop is about to take
\* a branch the bounds no longer allow
LoopDone ==
    /\ pc = "loop"
    /\ \/ Branch = "flush" /\ used.pushes >= LoopProfile.maxPushes
       \/ Branch = "aggregate" /\ used.windows >= LoopProfile.maxWindows

\* a step of the loop can be taken: the guards of the actions of Next
CanTick ==
    \/ pc = "RadCalc"
    \/ pc = "loop" /\ Branch = "sample"
    \/ pc = "loop" /\ Branch = "aggregate"
          /\ used.windows < LoopProfile.maxWindows
    \/ pc = "loop" /\ Branch = "flush" /\ used.pushes < LoopProfile.maxPushes

C13_NoRecordWithoutTime ==
    [][(pc = "RadCalc" /\ pc' # "RadCalc" /\ ~tick'.timeOk)
          => UNCHANGED <<usedData, logEntires, dataStore>>]_vars

\* C13 witness: an aggregating tick has ended with the time unavailable, after
\* an earlier one had logged a record
C13_Witness ==
    /\ pc = "loop" /\ tick.branch = "aggregate" /\ ~tick.timeOk
    /\ logEntires = 1 /\ usedData > 0

\* C14: ThresholdCheck runs in every tick of the loop, the ticks that
\* aggregate and the ticks that flush included.
C14_CheckEveryTick == (pc = "loop" /\ tick.branch # "none") => tick.checked

\* C15: a tick with logEntires below the threshold aggregates exactly when
\* LOG_PERIOD ms or more have gone by since previousMillis, and then sets
\* previousMillis to the time the tick began; a sample tick and a flush tick
\* leave previousMillis as it was.
C15_AggregateWhenWindowElapsed ==
    [][(TickStep /\ logEntires < ReadingsTransmitThreshold) =>
         /\ tick'.branch = "aggregate"
               <=> Value(Sub32(clock, previousMillis)) >= LOG_PERIOD
         /\ tick'.branch = "aggregate" => previousMillis' = clock
         /\ tick'.branch \in {"sample", "flush"}
               => previousMillis' = previousMillis]_vars

\* C16: a ThresholdCheck made in cooldown (lastAlertMillis set and at most
\* AlertPeriod ms ago) notifies nobody and leaves lastAlertMillis as it was,
\* whatever the readings; and lastAlertMillis changes in no step other than a
\* ThresholdCheck that notifies.
C16_CooldownCheckIsNoOp ==
    [][/\ (SampleStep /\ lastAlertMillis # ULong(0) /\ SinceAlert <= AlertPeriod)
            => (tick'.sent = <<>> /\ lastAlertMillis' = lastAlertMillis)
       /\ lastAlertMillis' # lastAlertMillis
            => (SampleStep /\ tick'.sent # <<>>)]_vars

\* C16 witness: a ThresholdCheck made in cooldown with the case temperature
\* at its limit has returned without notifying
C16_Witness ==
    /\ tick.branch = "sample" /\ tick.checked /\ tick.sent = <<>>
    /\ lastAlertMillis # ULong(0)
    /\ Value(Sub32(tick.checkedAt, lastAlertMillis)) <= AlertPeriod
    /\ caseTemp >= CaseTempLimit

\* C17: a tick that begins below both thresholds (a sample tick) runs the
\* alert check and leaves usedData, dataStore, logEntires, previousMillis,
\* cpm and uSvH unchanged and does not reset or drain counts; a tick that
\* begins with logEntires at the flush threshold (a flush tick) does not
\* drain counts or change cpm and uSvH.
C17_SampleAndFlushFrame ==
    [][TickStep =>
         /\ (/\ logEntires < ReadingsTransmitThreshold
             /\ Value(Sub32(clock, previousMillis)) <= LOG_PERIOD)
               => /\ tick'.checked
                  /\ UNCHANGED <<usedData, dataStore, logEntires, previousMillis,
                                 cpm, uSvH, counts, drained>>
         /\ logEntires >= ReadingsTransmitThreshold
               => UNCHANGED <<counts, cpm, uSvH, drained>>]_vars

\* C17 witness: a flush tick has ended with pulses waiting in counts and the
\* cpm of the window before still in place
C17_Witness ==
    /\ pc = "loop" /\ tick.branch = "flush"
    /\ Value(counts) > 0 /\ cpm > 0 /\ uSvH > 0

\* C18: the payload handed to the transport (dataStore up to its first NUL at
\* the POST) is one batch header, the ReadingsTransmitThreshold records
\* appended since the flush tick before, and the closing "]}", and nothing
\* else: the buffer holds that one batch when the flush tick begins, and
\* the payload ends with the "]}" written over its last byte.
C18_PayloadIsOneBatch ==
    [][(TickStep /\ tick'.handed) =>
         /\ dataStore.segs =
               <<[kind |-> "head", len |-> StartHeadLen, n |-> 0],
                 [kind |-> "recs", len |-> usedData - StartHeadLen,
                  n |-> ReadingsTransmitThreshold]>>
         /\ tick'.payloadLen = usedData + 1]_vars

====
